---- MODULE Spec2Model ----
(***************************************************************************)
(* lazyapi: a batch HTTP prober.  main() builds a target list from a file  *)
(* and a base URL, submits one process_url task per target to a            *)
(* ThreadPoolExecutor, waits in as_completed, and finally writes the       *)
(* accumulated blocks (output_lines) to the output file.                   *)
(*                                                                         *)
(* Strings are sequences of one-character strings.  A falsy Python value   *)
(* (None or "") of args.file, args.url and args.output is the empty value. *)
(*                                                                         *)
(* The pool is concurrent.futures.ThreadPoolExecutor: at most max_workers  *)
(* threads take work items from one FIFO queue.  shutdown(wait=False)      *)
(* without cancel_futures leaves the queued items in place, and the        *)
(* interpreter joins the pool's threads when main has returned or raised,  *)
(* so the threads run every queued item whatever main does.                *)
(*                                                                         *)
(* requests[i] counts the calls of requests.<method> made for target i.    *)
(* KeyboardInterrupt is modelled where main handles it, inside the         *)
(* as_completed loop.                                                      *)
(***************************************************************************)
EXTENDS Integers, Sequences, FiniteSets

VARIABLES args, fs, pc, urls, executor, work_queue, futures, requests,
          result, output_lines, completed, out_file, saved

vars == <<args, fs, pc, urls, executor, work_queue, futures, requests,
          result, output_lines, completed, out_file, saved>>

-----------------------------------------------------------------------------
(* Bounds of the model *)

MaxLines == 2
MaxThreads == 2

-----------------------------------------------------------------------------
(* Inputs *)

Whitespace == {" "}
Slash == {"/"}

\* the lines a targets file may hold (without the line terminator, which
\* strip() removes like any other whitespace)
LineChoices == { <<>>, <<" ">>, <<"a">>, <<" ", "/", "b">> }

UrlChoices == { <<>>, <<"h", "/">> }

MethodChoices == { "get", "PUT", "patch" }

Codes == { 200, 301, 404, 500 }

\* -c takes nargs='+': absent (None) or a list of at least one code
StatusCodeChoices ==
    { [given |-> FALSE, codes |-> {}],
      [given |-> TRUE, codes |-> {200}],
      [given |-> TRUE, codes |-> {200, 404}] }

RECURSIVE SeqsUpTo(_, _)
SeqsUpTo(S, n) ==
    IF n = 0 THEN { <<>> }
    ELSE LET shorter == SeqsUpTo(S, n - 1)
         IN  shorter \cup { Append(s, x) : s \in shorter, x \in S }

-----------------------------------------------------------------------------
(* String helpers of the URL builder *)

RECURSIVE lstrip(_, _)
lstrip(s, chars) ==
    IF s # <<>> /\ Head(s) \in chars THEN lstrip(Tail(s), chars) ELSE s

RECURSIVE rstrip(_, _)
rstrip(s, chars) ==
    IF s # <<>> /\ s[Len(s)] \in chars
    THEN rstrip(SubSeq(s, 1, Len(s) - 1), chars)
    ELSE s

strip(s) == lstrip(rstrip(s, Whitespace), Whitespace)

\* method.lower()
lower(m) ==
    CASE m = "PUT" -> "put"
      [] OTHER -> m

SupportedMethods == { "get", "post", "put", "delete" }

\* one loop iteration of the file reader: the target built from one line
full_url(line, direct, url) ==
    LET sub_url == strip(line)
    IN  IF direct THEN sub_url
        ELSE rstrip(url, Slash) \o <<"/">> \o lstrip(sub_url, Slash)

\* the whole reader loop: one urls.append per line of the file
BuildUrls(lines, direct, url) ==
    [k \in 1..Len(lines) |-> full_url(lines[k], direct, url)]

-----------------------------------------------------------------------------
(* get_url_info, format_output, process_url *)

\* What the call requests.<method>(url, ...) and the interpretation of its
\* response can do for one target.
ResponseKinds(u, method) ==
    IF lower(method) \notin SupportedMethods THEN { "unsupported" }
    ELSE IF u = <<>> THEN { "RequestException" }
    ELSE { "response", "RequestException", "Exception" }

Outcomes(u, method) ==
    { [kind |-> k, status_code |-> c] :
        k \in ResponseKinds(u, method) \ { "response" }, c \in { 0 } }
    \cup
    { [kind |-> k, status_code |-> c] :
        k \in ResponseKinds(u, method) \cap { "response" }, c \in Codes }

NoResult == [kind |-> "none", status_code |-> 0]

\* get_url_info returns a status code, or None for a logged failure; any
\* exception that is not a RequestException propagates to the caller
get_url_info(o) ==
    CASE o.kind = "response" -> [raised |-> FALSE, is_none |-> FALSE, status_code |-> o.status_code]
      [] o.kind = "Exception" -> [raised |-> TRUE, is_none |-> TRUE, status_code |-> 0]
      [] OTHER -> [raised |-> FALSE, is_none |-> TRUE, status_code |-> 0]

format_output(u, status_code) == [url |-> u, status_code |-> status_code]

\* the filter without its "is None" test
StatusFilter_NoneRejects(status_code, allow) ==
    status_code \in allow.codes

\* "args.status_code is None or status_code in args.status_code"
StatusFilter(status_code, allow) ==
    (~allow.given) \/ status_code \in allow.codes

\* an append that loses an update: the new block overwrites the last one
ListAppend_LostUpdate(lines, output) ==
    IF lines = <<>> THEN << output >>
    ELSE [lines EXCEPT ![Len(lines)] = output]

\* output_lines.append(output)
ListAppend(lines, output) == Append(lines, output)

\* the body of process_url after get_url_info has returned
process_url(u, info, allow, lines) ==
    IF ~info.is_none /\ StatusFilter(info.status_code, allow)
    THEN ListAppend(lines, format_output(u, info.status_code))
    ELSE lines

-----------------------------------------------------------------------------
(* State *)

\* open(args.file) succeeds
FileExists(file) == file = "urls.txt"

\* the tasks handed to a thread (or run by main itself for a single URL)
Targets == DOMAIN futures

Running == { i \in Targets : futures[i] = "RUNNING" }

AllFinished == \A i \in Targets : futures[i] = "FINISHED"

ArgsChoices ==
    [ file : { "", "missing.txt", "urls.txt" },
      url : UrlChoices,
      output : { "", "out.txt" },
      direct : BOOLEAN,
      method : MethodChoices,
      status_code : StatusCodeChoices,
      threads : 0..MaxThreads ]

Init ==
    /\ args \in ArgsChoices
    /\ fs \in SeqsUpTo(LineChoices, MaxLines)
    /\ (~FileExists(args.file) => fs = <<>>)
    /\ pc = "start"
    /\ urls = <<>>
    /\ executor = "none"
    /\ work_queue = <<>>
    /\ futures = <<>>
    /\ requests = <<>>
    /\ result = <<>>
    /\ output_lines = <<>>
    /\ completed = <<>>
    /\ out_file = [exists |-> FALSE, content |-> <<>>]
    /\ saved = FALSE

\* the work a task does from the moment a thread picks it up to the blocking
\* HTTP call: one call of requests.<method> when the method is supported
IssueRequest(reqs, i, method) ==
    IF lower(method) \in SupportedMethods
    THEN [reqs EXCEPT ![i] = @ + 1]
    ELSE reqs

-----------------------------------------------------------------------------
(* main *)

\* the chain with a batch branch that tests -f alone
Branch_FileAlone(file, url) ==
    IF file = "" /\ url = <<>> THEN "help"
    ELSE IF file # "" THEN "batch"
    ELSE "single"

\* the if / elif / else chain of main over the truthiness of -f and -u
Branch(file, url) ==
    IF file = "" /\ url = <<>> THEN "help"
    ELSE IF file # "" /\ url # <<>> THEN "batch"
    ELSE IF url # <<>> THEN "single"
    ELSE "message"

\* neither -f nor -u: print the help text and return
PrintHelp ==
    /\ pc = "start"
    /\ Branch(args.file, args.url) = "help"
    /\ pc' = "returned"
    /\ UNCHANGED <<args, fs, urls, executor, work_queue, futures, requests,
                   result, output_lines, completed, out_file, saved>>

\* -f and -u, the file cannot be opened
FileNotFound ==
    /\ pc = "start"
    /\ Branch(args.file, args.url) = "batch"
    /\ ~FileExists(args.file)
    /\ pc' = "save"
    /\ UNCHANGED <<args, fs, urls, executor, work_queue, futures, requests,
                   result, output_lines, completed, out_file, saved>>

\* -f and -u, max_workers <= 0: ThreadPoolExecutor raises ValueError
PoolValueError ==
    /\ pc = "start"
    /\ Branch(args.file, args.url) = "batch"
    /\ FileExists(args.file)
    /\ args.threads <= 0
    /\ urls' = BuildUrls(fs, args.direct, args.url)
    /\ pc' = "raised"
    /\ UNCHANGED <<args, fs, executor, work_queue, futures, requests,
                   result, output_lines, completed, out_file, saved>>

\* the queue after the list comprehension of executor.submit calls
SubmitAll(n) == [k \in 1..n |-> k]

\* -f and -u: read the file, create the pool, submit one task per target
Submit ==
    /\ pc = "start"
    /\ Branch(args.file, args.url) = "batch"
    /\ FileExists(args.file)
    /\ args.threads > 0
    /\ urls' = BuildUrls(fs, args.direct, args.url)
    /\ executor' = "open"
    /\ work_queue' = SubmitAll(Len(fs))
    /\ futures' = [k \in 1..Len(fs) |-> "PENDING"]
    /\ requests' = [k \in 1..Len(fs) |-> 0]
    /\ result' = [k \in 1..Len(fs) |-> NoResult]
    /\ pc' = "as_completed"
    /\ UNCHANGED <<args, fs, output_lines, completed, out_file, saved>>

\* -u alone: process_url(args.url, ...) called in main, up to the HTTP call
SingleStart ==
    /\ pc = "start"
    /\ Branch(args.file, args.url) = "single"
    /\ urls' = <<args.url>>
    /\ futures' = <<"RUNNING">>
    /\ requests' = IssueRequest(<<0>>, 1, args.method)
    /\ result' = <<NoResult>>
    /\ pc' = "single"
    /\ UNCHANGED <<args, fs, executor, work_queue, output_lines, completed,
                   out_file, saved>>

\* -u alone: the HTTP call returns and process_url finishes in main
SingleFinish ==
    /\ pc = "single"
    /\ \E o \in Outcomes(urls[1], args.method) :
         LET info == get_url_info(o)
         IN  /\ result' = [result EXCEPT ![1] = o]
             /\ futures' = [futures EXCEPT ![1] = "FINISHED"]
             /\ completed' = Append(completed, 1)
             /\ IF info.raised
                THEN /\ pc' = "raised"
                     /\ UNCHANGED output_lines
                ELSE /\ pc' = "save"
                     /\ output_lines' = process_url(urls[1], info, args.status_code, output_lines)
    /\ UNCHANGED <<args, fs, urls, executor, work_queue, requests, out_file, saved>>

\* -f without -u: only the "provide a valid -f or -u" message
NoTarget ==
    /\ pc = "start"
    /\ Branch(args.file, args.url) = "message"
    /\ pc' = "save"
    /\ UNCHANGED <<args, fs, urls, executor, work_queue, futures, requests,
                   result, output_lines, completed, out_file, saved>>

-----------------------------------------------------------------------------
(* the pool's worker threads *)

\* a pool that starts one thread too many
CanDispatch_OffByOne(running, threads) == Cardinality(running) <= threads

\* a thread may take the next work item: the pool never has more than
\* max_workers threads
CanDispatch(running, threads) == Cardinality(running) < threads

\* a queue whose head is read but not removed
Dequeue_Peek(q) == q

\* the queue after a worker took its head
Dequeue(q) == Tail(q)

\* a worker takes the head of the queue and runs process_url up to the
\* blocking HTTP call
WorkerStart ==
    /\ executor # "none"
    /\ work_queue # <<>>
    /\ CanDispatch(Running, args.threads)
    /\ LET i == Head(work_queue)
       IN  /\ futures' = [futures EXCEPT ![i] = "RUNNING"]
           /\ requests' = IssueRequest(requests, i, args.method)
    /\ work_queue' = Dequeue(work_queue)
    /\ UNCHANGED <<args, fs, pc, urls, executor, result, output_lines,
                   completed, out_file, saved>>

\* a pool in which the failure of one task discards the queued ones
WorkerFinish_FailureAborts(i) ==
    /\ executor # "none"
    /\ futures[i] = "RUNNING"
    /\ \E o \in Outcomes(urls[i], args.method) :
         LET info == get_url_info(o)
         IN  /\ result' = [result EXCEPT ![i] = o]
             /\ output_lines' = IF info.raised THEN output_lines
                                ELSE process_url(urls[i], info, args.status_code, output_lines)
             /\ work_queue' = IF info.is_none THEN <<>> ELSE work_queue
    /\ futures' = [futures EXCEPT ![i] = "FINISHED"]
    /\ completed' = Append(completed, i)
    /\ UNCHANGED <<args, fs, pc, urls, executor, requests, out_file, saved>>

\* the HTTP call of a running task returns; process_url runs to its end and
\* the future is set
WorkerFinish(i) ==
    /\ executor # "none"
    /\ futures[i] = "RUNNING"
    /\ \E o \in Outcomes(urls[i], args.method) :
         LET info == get_url_info(o)
         IN  /\ result' = [result EXCEPT ![i] = o]
             /\ output_lines' = IF info.raised THEN output_lines
                                ELSE process_url(urls[i], info, args.status_code, output_lines)
    /\ futures' = [futures EXCEPT ![i] = "FINISHED"]
    /\ completed' = Append(completed, i)
    /\ UNCHANGED <<args, fs, pc, urls, executor, work_queue, requests,
                   out_file, saved>>

-----------------------------------------------------------------------------
(* main, waiting in as_completed *)

Raised(i) == futures[i] = "FINISHED" /\ get_url_info(result[i]).raised

\* a loop that ends at the first finished future
LoopDone_First(fut) == \E i \in DOMAIN fut : fut[i] = "FINISHED"

\* the loop over as_completed ends when every future is done
LoopDone(fut) == \A i \in DOMAIN fut : fut[i] = "FINISHED"

AsCompletedDone ==
    /\ pc = "as_completed"
    /\ LoopDone(futures)
    /\ \A i \in Targets : ~Raised(i)
    /\ pc' = "save"
    /\ UNCHANGED <<args, fs, urls, executor, work_queue, futures, requests,
                   result, output_lines, completed, out_file, saved>>

\* future.result() re-raises the exception of a finished task; nothing in
\* main catches it
FutureRaises ==
    /\ pc = "as_completed"
    /\ \E i \in Targets : Raised(i)
    /\ pc' = "raised"
    /\ UNCHANGED <<args, fs, urls, executor, work_queue, futures, requests,
                   result, output_lines, completed, out_file, saved>>

\* KeyboardInterrupt inside the as_completed loop:
\* executor.shutdown(wait=False) and return
KeyboardInterrupt ==
    /\ pc = "as_completed"
    /\ executor' = "shutdown"
    /\ pc' = "interrupted"
    /\ UNCHANGED <<args, fs, urls, work_queue, futures, requests, result,
                   output_lines, completed, out_file, saved>>

-----------------------------------------------------------------------------
(* main, the output file *)

\* the file after open(args.output, 'w') and the first k writes
WriteFile(lines, k) == [exists |-> TRUE, content |-> SubSeq(lines, 1, k)]

\* "if args.output and output_lines": write every block, or fail part-way
\* (the error is logged), or fail to open the file at all
Save ==
    /\ pc = "save"
    /\ IF args.output # "" /\ output_lines # <<>>
       THEN \/ /\ out_file' = WriteFile(output_lines, Len(output_lines))
               /\ saved' = TRUE
            \/ /\ \E k \in 0..(Len(output_lines) - 1) :
                    out_file' = WriteFile(output_lines, k)
               /\ UNCHANGED saved
            \/ UNCHANGED <<out_file, saved>>
       ELSE UNCHANGED <<out_file, saved>>
    /\ pc' = "returned"
    /\ UNCHANGED <<args, fs, urls, executor, work_queue, futures, requests,
                   result, output_lines, completed>>

-----------------------------------------------------------------------------

Next ==
    \/ PrintHelp
    \/ FileNotFound
    \/ PoolValueError
    \/ Submit
    \/ SingleStart
    \/ SingleFinish
    \/ NoTarget
    \/ WorkerStart
    \/ \E i \in Targets : WorkerFinish(i)
    \/ AsCompletedDone
    \/ FutureRaises
    \/ KeyboardInterrupt
    \/ Save

Spec == Init /\ [][Next]_vars

-----------------------------------------------------------------------------
(* Properties *)

Count(seq, b) == Cardinality({ k \in DOMAIN seq : seq[k] = b })

RECURSIVE SumTo(_, _)
SumTo(f, n) == IF n = 0 THEN 0 ELSE f[n] + SumTo(f, n - 1)

TotalRequests == SumTo(requests, Len(requests))

Batch == executor # "none"

Supported == lower(args.method) \in SupportedMethods

IsBlank(line) == \A k \in DOMAIN line : line[k] \in Whitespace

\* the default of -t
DefaultThreads == 1

\* the block a target that got a response would contribute
BlockOf(i) == [url |-> urls[i], status_code |-> result[i].status_code]

Responded(i) == futures[i] = "FINISHED" /\ result[i].kind = "response"

Failed(i) ==
    futures[i] = "FINISHED"
    /\ result[i].kind \in { "RequestException", "unsupported", "Exception" }

\* C1: in a batch run the failure of one target never stops the others: as
\* long as a target is unprobed a probe is in flight or a thread can take the
\* next one, and
\* with no status filter the accumulator holds exactly one block per target
\* that got a response and none for a target that failed.
C1_FailureIsolated ==
    Batch =>
        /\ (~AllFinished => Running # {} \/ ENABLED WorkerStart)
        /\ (~args.status_code.given =>
              /\ Len(output_lines) = Cardinality({ i \in Targets : Responded(i) })
              /\ \A i \in Targets :
                   Responded(i) =>
                     Count(output_lines, BlockOf(i)) =
                       Cardinality({ j \in Targets : Responded(j) /\ BlockOf(j) = BlockOf(i) }))

C1_Witness ==
    /\ Batch /\ AllFinished /\ ~args.status_code.given
    /\ Len(completed) >= 2
    /\ result[completed[1]].kind = "Exception"
    /\ pc = "raised"
    /\ output_lines # <<>>
    /\ Len(output_lines) = Len(urls) - Cardinality({ i \in Targets : Failed(i) })

\* C2: when main returns on an interrupt with an output path and a non-empty
\* accumulator, the blocks collected so far have been written to the file.
C2_InterruptKeepsResults ==
    [][(pc = "as_completed" /\ pc' = "interrupted"
          /\ args.output # "" /\ output_lines # <<>>)
        => (saved' /\ out_file'.content = output_lines)]_vars

\* C3: once the interrupt is handled, a task that no thread had started stays
\* unstarted: no HTTP request is issued for it.
C3_NoDispatchAfterInterrupt ==
    [][executor = "shutdown" =>
         \A i \in Targets :
            futures[i] = "PENDING" =>
              futures'[i] = "PENDING" /\ requests'[i] = requests[i]]_vars

C5_BlankLinesSkipped ==
    (pc # "start" /\ Branch(args.file, args.url) = "batch" /\ FileExists(args.file))
        => urls = BuildUrls(SelectSeq(fs, LAMBDA line : ~IsBlank(line)),
                            args.direct, args.url)

\* C6: with a supported method the HTTP request of a target is issued exactly
\* once: never before a thread takes the task, once from then on, never
\* twice; and a run that was not interrupted has requested every line.
C6_ExactlyOneRequest ==
    Supported =>
        /\ \A i \in Targets :
             requests[i] = IF futures[i] = "PENDING" THEN 0 ELSE 1
        /\ (Batch /\ pc \in { "save", "returned" } =>
              /\ Len(requests) = Len(fs)
              /\ \A i \in 1..Len(fs) : requests[i] = 1)

C6_Witness ==
    /\ Supported /\ Batch /\ pc = "returned"
    /\ Len(fs) >= 2
    /\ \E i \in Targets : result[i].kind = "RequestException"
    /\ TotalRequests = Len(fs)

\* C7: the number of probes in flight never exceeds the worker count, and
\* with the default worker count a probe starts only when every earlier one
\* has finished.
C7_BoundedWorkers ==
    Batch =>
        /\ Cardinality(Running) <= args.threads
        /\ (args.threads = DefaultThreads =>
              \A i \in Targets :
                 futures[i] = "RUNNING" =>
                    \A j \in Targets : j # i =>
                       futures[j] = IF j < i THEN "FINISHED" ELSE "PENDING")

C7_Witness ==
    /\ Batch
    /\ Cardinality(Running) = args.threads
    /\ work_queue # <<>>

\* a finished target whose response passes the allowlist
Produces(i) ==
    /\ result[i].kind = "response"
    /\ (~args.status_code.given \/ result[i].status_code \in args.status_code.codes)

\* what a run with one worker leaves in the accumulator: the targets are
\* processed one after another in submission order
RECURSIVE SequentialRun(_)
SequentialRun(n) ==
    IF n = 0 THEN <<>>
    ELSE LET before == SequentialRun(n - 1)
         IN  IF Produces(n) THEN Append(before, BlockOf(n))
             ELSE before

IsPermutation(s, t) ==
    /\ Len(s) = Len(t)
    /\ \A k \in DOMAIN s : Count(s, s[k]) = Count(t, s[k])

\* C8: for the same targets, allowlist and responses, the final accumulator
\* of a run with any worker count holds the same multiset of blocks as the
\* run with one worker, which holds them in submission order.
C8_SameBlocksAnyWorkers ==
    (Batch /\ AllFinished) =>
        /\ IsPermutation(output_lines, SequentialRun(Len(urls)))
        /\ (args.threads = 1 => output_lines = SequentialRun(Len(urls)))

C8_Witness ==
    /\ Batch /\ AllFinished /\ pc = "returned"
    /\ args.threads >= 2
    /\ Len(output_lines) >= 2
    /\ output_lines # SequentialRun(Len(urls))

\* the blocks of the targets of a completion sequence, in that order
RECURSIVE InCompletionOrder(_)
InCompletionOrder(done) ==
    IF done = <<>> THEN <<>>
    ELSE LET i == done[Len(done)]
             before == InCompletionOrder(SubSeq(done, 1, Len(done) - 1))
         IN  IF Produces(i) THEN Append(before, BlockOf(i))
             ELSE before

\* C9: the accumulator holds the blocks in the order their probes completed;
\* the file is written only when every probe has completed, a completed
\* write holds exactly the accumulator, and without a block no file is
\* written.
C9_CompletionOrderAndFile ==
    /\ output_lines = InCompletionOrder(completed)
    /\ (out_file.exists =>
          /\ AllFinished
          /\ args.output # ""
          /\ output_lines # <<>>
          /\ pc = "returned")
    /\ (saved => out_file.exists /\ out_file.content = output_lines)

C9_Witness ==
    /\ Batch /\ saved
    /\ Len(out_file.content) >= 2
    /\ \E k \in DOMAIN completed : completed[k] # k

====
